---- MODULE Spec2Model ----
(***************************************************************************)
(* Type-directed dispatch of GPflow's `expectation` and `conditional`.     *)
(*                                                                         *)
(* The expectation catalog is the set of registrations made by             *)
(* gpflow/expectations/misc.py; the conditional catalog is the set made by *)
(* gpflow/conditionals/conditionals.py.  A call of `expectation` is a      *)
(* stack of frames: each frame is dispatched on the runtime types of its   *)
(* arguments and then runs the body of the handler it resolved to, which   *)
(* may call `expectation` again.  A call of `conditional` is dispatched    *)
(* once and runs one of the two `_conditional` bodies.                     *)
(***************************************************************************)
EXTENDS Integers, Sequences, FiniteSets, TLC

VARIABLES
    phase,        \* "load" while the modules are imported, then "query"
    regIdx,       \* number of misc.py registrations executed so far
    condIdx,      \* number of conditionals.py registrations executed so far
    catalog,      \* dispatch.expectation: set of [sig, fn]
    condCatalog,  \* conditional_dispatcher: set of [sig, fn]
    stack,        \* frames of the running expectation call, innermost last
    outcome,      \* how the last top-level expectation call ended
    cond          \* the running / last conditional call

vars == <<phase, regIdx, condIdx, catalog, condCatalog, stack, outcome, cond>>

(***************************************************************************)
(* Bounds of the model.                                                    *)
(***************************************************************************)
MaxDepth == 6    \* frames the interpreter allows before RecursionError
MaxSteps == 3    \* points (time steps) of an input distribution
MaxVar == 1      \* variances of an input distribution: 1..MaxVar
Dim == 2         \* input dimension D
MaxN == 3        \* query points N of a conditional call
MaxR == 2        \* outputs R of a conditional call

(***************************************************************************)
(* Runtime types and the class hierarchy dispatch walks.                   *)
(***************************************************************************)
Mro(t) ==
    CASE t = "mfn.Identity"     -> <<"mfn.Identity", "mfn.Linear", "mfn.MeanFunction", "object">>
      [] t = "mfn.Linear"       -> <<"mfn.Linear", "mfn.MeanFunction", "object">>
      [] t = "mfn.Constant"     -> <<"mfn.Constant", "mfn.MeanFunction", "object">>
      [] t = "mfn.MeanFunction" -> <<"mfn.MeanFunction", "object">>
      [] t = "kernels.Linear"   -> <<"kernels.Linear", "kernels.Kernel", "object">>
      [] t = "kernels.RBF"      -> <<"kernels.RBF", "kernels.Kernel", "object">>
      [] t = "kernels.Kernel"   -> <<"kernels.Kernel", "object">>
      [] t = "InducingPoints"   -> <<"InducingPoints", "InducingFeature", "object">>
      [] t = "InducingFeature"  -> <<"InducingFeature", "object">>
      [] t = "object"           -> <<"object">>
      [] OTHER                  -> <<t, "object">>

IsSubclass(t, s) == \E i \in 1..Len(Mro(t)) : Mro(t)[i] = s

\* Position of ancestor s in the hierarchy of t (1 = the type itself).
Distance(t, s) == CHOOSE i \in 1..Len(Mro(t)) : Mro(t)[i] = s

(***************************************************************************)
(* The dispatch registry (4.1): registration and resolution.               *)
(***************************************************************************)
\* One registration call: each slot a set of types; expands to the product.
Expand(reg) ==
    { [sig |-> <<d, a, b, c, e>>, fn |-> reg.fn] :
        d \in reg.pats[1], a \in reg.pats[2], b \in reg.pats[3],
        c \in reg.pats[4], e \in reg.pats[5] }

\* A later registration of the same signature replaces the earlier one.
Register(cat, reg) ==
    { e \in cat : \A n \in Expand(reg) : n.sig # e.sig } \cup Expand(reg)

Matches(sig, key) == \A i \in DOMAIN key : IsSubclass(key[i], sig[i])

Candidates(cat, key) == { e \in cat : Matches(e.sig, key) }

Wildcards(sig) == Cardinality({ i \in DOMAIN sig : sig[i] = "object" })

\* Left-to-right comparison of how closely two matching signatures fit key.
CloserFrom(a, b, key, i) ==
    \E j \in i..Len(key) :
        /\ Distance(key[j], a[j]) < Distance(key[j], b[j])
        /\ \A k \in i..(j - 1) : a[k] = b[k]

MoreSpecific(a, b, key) ==
    \/ Wildcards(a) < Wildcards(b)
    \/ Wildcards(a) = Wildcards(b) /\ CloserFrom(a, b, key, 1)

Resolve(cat, key) ==
    CHOOSE e \in Candidates(cat, key) :
        \A o \in Candidates(cat, key) \ {e} : MoreSpecific(e.sig, o.sig, key)

(***************************************************************************)
(* Registrations of gpflow/expectations/misc.py, in file order.  Every     *)
(* handler there is named _E; a handler is identified by the line of its   *)
(* def.                                                                    *)
(***************************************************************************)
E18 == "_E@18"
E33 == "_E@33"
E45 == "_E@45"
E61 == "_E@61"
E81 == "_E@81"
E100 == "_E@100"
E110 == "_E@110"

Reg_E18_MarkovOnly ==
    [pats |-> <<{"MarkovGaussian"}, {"mfn.Identity"}, {"NoneType"},
                {"kernels.Linear"}, {"InducingPoints"}>>, fn |-> E18]

Reg_E18 ==
    [pats |-> <<{"Gaussian", "MarkovGaussian"}, {"mfn.Identity"}, {"NoneType"},
                {"kernels.Linear"}, {"InducingPoints"}>>, fn |-> E18]

Reg_E33 ==
    [pats |-> <<{"Gaussian", "MarkovGaussian"}, {"kernels.Kernel"}, {"InducingFeature"},
                {"mfn.MeanFunction"}, {"NoneType"}>>, fn |-> E33]

Reg_E45 ==
    [pats |-> <<{"Gaussian"}, {"mfn.Constant"}, {"NoneType"},
                {"kernels.Kernel"}, {"InducingPoints"}>>, fn |-> E45]

Reg_E61 ==
    [pats |-> <<{"Gaussian"}, {"mfn.Linear"}, {"NoneType"},
                {"kernels.Kernel"}, {"InducingPoints"}>>, fn |-> E61]

Reg_E81 ==
    [pats |-> <<{"Gaussian"}, {"mfn.Identity"}, {"NoneType"},
                {"kernels.Kernel"}, {"InducingPoints"}>>, fn |-> E81]

Reg_E100 ==
    [pats |-> <<{"DiagonalGaussian"}, {"object"}, {"InducingFeature", "NoneType"},
                {"object"}, {"InducingFeature", "NoneType"}>>, fn |-> E100]

Reg_E110 ==
    [pats |-> <<{"MarkovGaussian"}, {"object"}, {"InducingFeature", "NoneType"},
                {"object"}, {"InducingFeature", "NoneType"}>>, fn |-> E110]

Registrations == <<Reg_E18, Reg_E33, Reg_E45, Reg_E61, Reg_E81, Reg_E100, Reg_E110>>

(***************************************************************************)
(* Closed-form handlers registered by the other modules of the expectation *)
(* catalog (4.5).  They return without calling expectation again.  Which   *)
(* of them are present is not fixed by misc.py, so every subset is         *)
(* explored.                                                               *)
(***************************************************************************)
ExternalRegistrations ==
    { [pats |-> <<{"Gaussian"}, {"kernels.RBF", "kernels.Linear"}, {"InducingPoints"},
                  {"NoneType"}, {"NoneType"}>>, fn |-> "eKxz"],
      [pats |-> <<{"Gaussian"}, {"mfn.Identity"}, {"NoneType"},
                  {"kernels.RBF"}, {"InducingPoints"}>>, fn |-> "exKxz_RBF"],
      [pats |-> <<{"Gaussian", "MarkovGaussian"}, {"kernels.Linear"}, {"InducingPoints"},
                  {"mfn.Identity"}, {"NoneType"}>>, fn |-> "eKzxx_Linear"],
      [pats |-> <<{"Gaussian"}, {"mfn.MeanFunction"}, {"NoneType"},
                  {"NoneType"}, {"NoneType"}>>, fn |-> "eMean"],
      [pats |-> <<{"DiagonalGaussian"}, {"kernels.RBF"}, {"InducingPoints"},
                  {"NoneType"}, {"NoneType"}>>, fn |-> "eKxz_Diagonal"] }

RECURSIVE RegisterAll(_, _)
RegisterAll(cat, regs) ==
    IF regs = {} THEN cat
    ELSE LET r == CHOOSE x \in regs : TRUE
         IN  RegisterAll(Register(cat, r), regs \ {r})

(***************************************************************************)
(* Registrations of gpflow/conditionals/conditionals.py, in the order the  *)
(* decorators run: the stacked pair on the second _conditional applies     *)
(* tf.Tensor first, then np.ndarray.                                       *)
(***************************************************************************)
C23 == "_conditional@23"
C71 == "_conditional@71"

CondReg_Feature == [pats |-> <<{"InducingFeature"}, {"kernels.Kernel"}>>, fn |-> C23]
CondReg_Tensor == [pats |-> <<{"tf.Tensor"}, {"kernels.Kernel"}>>, fn |-> C71]
CondReg_Array_FirstFunction ==
    [pats |-> <<{"np.ndarray"}, {"kernels.Kernel"}>>, fn |-> C23]

CondReg_Array == [pats |-> <<{"np.ndarray"}, {"kernels.Kernel"}>>, fn |-> C71]

CondRegistrations == <<CondReg_Feature, CondReg_Tensor, CondReg_Array>>

CondExpand(reg) ==
    { [sig |-> <<a, b>>, fn |-> reg.fn] : a \in reg.pats[1], b \in reg.pats[2] }

\* Register(conditional_dispatcher, type_a, type_b): keyed by the types, the
\* value is the function object the decorator received.
CondRegister(cat, reg) ==
    { e \in cat : \A n \in CondExpand(reg) : n.sig # e.sig } \cup CondExpand(reg)

(***************************************************************************)
(* Distributions.  mu is a sequence of points; cov is, per point, a vector *)
(* of variances (DiagonalGaussian) or a matrix (Gaussian); a               *)
(* MarkovGaussian holds <<marginal blocks, cross-time blocks>>.            *)
(***************************************************************************)
Gaussian(mu, cov) == [type |-> "Gaussian", mu |-> mu, cov |-> cov]

Point(n) == [d \in 1..Dim |-> n + d]

Matrix(diag, off) == [i \in 1..Dim |-> [j \in 1..Dim |-> IF i = j THEN diag + i ELSE off]]

Lengths == {MaxSteps}

GaussianInputs ==
    { Gaussian([n \in 1..len |-> Point(n)], [n \in 1..len |-> Matrix(v + n, 1)]) :
        len \in Lengths, v \in 1..MaxVar }

DiagonalInputs ==
    { [type |-> "DiagonalGaussian",
       mu |-> [n \in 1..len |-> Point(n)],
       cov |-> [n \in 1..len |-> [d \in 1..Dim |-> v + n + d]]] :
        len \in Lengths, v \in 1..MaxVar }

MarkovInputs ==
    { [type |-> "MarkovGaussian",
       mu |-> [n \in 1..len |-> Point(n)],
       cov |-> << [n \in 1..len |-> Matrix(v + n, 0)],
                  [n \in 1..len |-> Matrix(v, 1)] >>] :
        len \in Lengths, v \in 1..MaxVar }

\* tf.linalg.diag on a batch of vectors.
LinalgDiag(vs) ==
    [n \in DOMAIN vs |->
        [i \in DOMAIN vs[n] |-> [j \in DOMAIN vs[n] |-> IF i = j THEN vs[n][i] ELSE 0]]]

\* x[:-1] and x[1:]
AllButLast(x) == SubSeq(x, 1, Len(x) - 1)
AllButFirst(x) == SubSeq(x, 2, Len(x))

(***************************************************************************)
(* expectation(p, obj1, obj2=None, nghp=None): a term is None, a bare      *)
(* object or an (object, feature) pair; the call is keyed on the types of  *)
(* (p, obj1, feat1, obj2, feat2).                                          *)
(***************************************************************************)
NoHint == "None"
Hints == {NoHint, "hint"}

NoTerm == <<"NoneType", "NoneType">>
Bare(obj) == <<obj, "NoneType">>

MeanTypes == {"mfn.Identity", "mfn.Linear", "mfn.Constant"}
KernelTypes == {"kernels.Linear", "kernels.RBF"}

Terms ==
    {NoTerm} \cup { Bare(o) : o \in MeanTypes \cup {"kernels.RBF"} }
             \cup { <<k, "InducingPoints">> : k \in KernelTypes }

Call(p, term1, term2, nghp) ==
    [p |-> p, obj1 |-> term1[1], feat1 |-> term1[2],
     obj2 |-> term2[1], feat2 |-> term2[2], nghp |-> nghp]

KeyOf(c) == <<c.p.type, c.obj1, c.feat1, c.obj2, c.feat2>>

NoDist == [type |-> "none", mu |-> <<>>, cov |-> <<>>]
NoValue == [p |-> NoDist, expr |-> <<>>]

Frame(c) ==
    [p |-> c.p, obj1 |-> c.obj1, feat1 |-> c.feat1, obj2 |-> c.obj2, feat2 |-> c.feat2,
     nghp |-> c.nghp, fn |-> "unresolved", pc |-> "dispatch", subs |-> <<>>, ret |-> NoValue]

\* A tensor is modelled by the distribution its leaves integrated over and
\* the postfix expression that produced it.
Token(op, nghp, args) == [op |-> op, nghp |-> nghp, args |-> args]
Op(name) == Token(name, "-", <<>>)
Then(v, name) == [p |-> v.p, expr |-> Append(v.expr, Op(name))]

(***************************************************************************)
(* Handler bodies of misc.py: the nested expectation calls a handler makes *)
(* (in order), and the value it returns from their results.                *)
(***************************************************************************)
E18_Calls(f) == << Call(f.p, <<f.obj2, f.feat2>>, Bare(f.obj1), NoHint) >>
E18_Value(f) == Then(f.subs[1], "transpose")

E33_Calls(f) == << Call(f.p, Bare(f.obj2), <<f.obj1, f.feat1>>, f.nghp) >>
E33_Value(f) == Then(f.subs[1], "transpose")

E45_Calls(f) == << Call(f.p, <<f.obj2, f.feat2>>, NoTerm, f.nghp) >>
E45_Value(f) == Then(f.subs[1], "constant_mul")

E61_Calls(f) ==
    << Call(f.p, Bare("mfn.Identity"), <<f.obj2, f.feat2>>, f.nghp),
       Call(f.p, <<f.obj2, f.feat2>>, NoTerm, f.nghp) >>
E61_Value(f) ==
    [p |-> f.subs[1].p,
     expr |-> Append(f.subs[1].expr, Op("A_matmul")) \o Append(f.subs[2].expr, Op("b_mul"))
              \o <<Op("add")>>]

E100_Calls_HintDropped(f) ==
    << Call(Gaussian(f.p.mu, LinalgDiag(f.p.cov)),
            <<f.obj1, f.feat1>>, <<f.obj2, f.feat2>>, NoHint) >>

E100_Calls(f) ==
    << Call(Gaussian(f.p.mu, LinalgDiag(f.p.cov)),
            <<f.obj1, f.feat1>>, <<f.obj2, f.feat2>>, f.nghp) >>
E100_Value(f) == f.subs[1]

E110_Calls_SameSlice(f) ==
    IF f.obj2 = "NoneType"
    THEN << Call(Gaussian(AllButLast(f.p.mu), AllButLast(f.p.cov[1])),
                 <<f.obj1, f.feat1>>, NoTerm, f.nghp) >>
    ELSE IF f.obj1 = "NoneType"
    THEN << Call(Gaussian(AllButLast(f.p.mu), AllButLast(f.p.cov[1])),
                 <<f.obj2, f.feat2>>, NoTerm, f.nghp) >>
    ELSE << Call(f.p, <<f.obj1, f.feat1>>, <<f.obj2, f.feat2>>, f.nghp) >>

E110_Calls(f) ==
    IF f.obj2 = "NoneType"
    THEN << Call(Gaussian(AllButLast(f.p.mu), AllButLast(f.p.cov[1])),
                 <<f.obj1, f.feat1>>, NoTerm, f.nghp) >>
    ELSE IF f.obj1 = "NoneType"
    THEN << Call(Gaussian(AllButFirst(f.p.mu), AllButFirst(f.p.cov[1])),
                 <<f.obj2, f.feat2>>, NoTerm, f.nghp) >>
    ELSE << Call(f.p, <<f.obj1, f.feat1>>, <<f.obj2, f.feat2>>, f.nghp) >>
E110_Value(f) == f.subs[1]

\* A closed-form handler of another module: no nested call.
Leaf_Value(f) ==
    [p |-> f.p, expr |-> << Token(f.fn, f.nghp, <<f.obj1, f.feat1, f.obj2, f.feat2>>) >>]

\* The spec's DispatchError is Python's NotImplementedError: the dispatcher
\* raises it when no signature matches, and _E@81 raises it itself.
DispatchError == "NotImplementedError"

HandlerRaises(f) == f.fn = E81

HandlerCalls(f) ==
    CASE f.fn = E18  -> E18_Calls(f)
      [] f.fn = E33  -> E33_Calls(f)
      [] f.fn = E45  -> E45_Calls(f)
      [] f.fn = E61  -> E61_Calls(f)
      [] f.fn = E100 -> E100_Calls(f)
      [] f.fn = E110 -> E110_Calls(f)
      [] OTHER       -> <<>>

HandlerValue(f) ==
    CASE f.fn = E18  -> E18_Value(f)
      [] f.fn = E33  -> E33_Value(f)
      [] f.fn = E45  -> E45_Value(f)
      [] f.fn = E61  -> E61_Value(f)
      [] f.fn = E100 -> E100_Value(f)
      [] f.fn = E110 -> E110_Value(f)
      [] OTHER       -> Leaf_Value(f)

HandlerRegisters_Memoising(f) ==
    IF f.fn = E100
    THEN { [pats |-> <<{"DiagonalGaussian"}, {f.obj1}, {f.feat1}, {f.obj2}, {f.feat2}>>,
            fn |-> E100] }
    ELSE {}

\* Registrations a handler body performs while it runs: none of the bodies
\* of misc.py touches the dispatcher.
HandlerRegisters(f) == {}

(***************************************************************************)
(* Bodies of the two _conditional handlers and the collaborators they call *)
(* (conditionals.py).  A tensor is modelled by its shape.                  *)
(***************************************************************************)
ReferenceTypes == {"InducingPoints", "np.ndarray", "tf.Tensor", "list"}
ConditionalKernelTypes == KernelTypes \cup {"object"}

\* base_conditional (4.2): Cholesky of Kmm fails when Kmm is not positive
\* definite; otherwise mean [N, R] and variance [N, R] or [R, N, N].
base_conditional(Kmn, Kmm, Knn, n, r, full_cov) ==
    IF ~Kmm.posdef
    THEN [status |-> "raised", error |-> "LinearAlgebraError", mean |-> <<>>, var |-> <<>>]
    ELSE [status |-> "returned", error |-> "none", mean |-> <<n, r>>,
          var |-> IF full_cov THEN <<r, n, n>> ELSE <<n, r>>]

\* expand_independent_outputs (4.4), fvar being [N, R] or [R, N, N].
expand_independent_outputs(fvar, full_cov, full_output_cov) ==
    LET n == IF full_cov THEN fvar[2] ELSE fvar[1]
        r == IF full_cov THEN fvar[1] ELSE fvar[2]
    IN  CASE ~full_cov /\ ~full_output_cov -> <<n, r>>
          [] full_cov /\ ~full_output_cov  -> <<r, n, n>>
          [] ~full_cov /\ full_output_cov  -> <<n, r, r>>
          [] OTHER                         -> <<n, r, n, r>>

\* Lines 61-63 and 113-115: how each variant obtains the three covariances.
C23_Covariances(c) ==
    [Kmm |-> [by |-> "Kuu", jitter |-> "argument", posdef |-> c.posdef],
     Kmn |-> [by |-> "Kuf"],
     Knn |-> [by |-> "kernel", full |-> c.full_cov]]

C71_Covariances(c) ==
    [Kmm |-> [by |-> "kernel", jitter |-> "added_to_diagonal", posdef |-> c.posdef],
     Kmn |-> [by |-> "kernel"],
     Knn |-> [by |-> "kernel", full |-> c.full_cov]]

\* Lines 64-66 and 116-120: what the variant does with base_conditional's
\* outcome b.  Neither has an except clause, so a raised error propagates.
C23_Finish_FlagsSwapped(b, full_cov, full_output_cov) ==
    IF b.status = "raised"
    THEN [status |-> "raised", error |-> b.error, mean |-> <<>>, var |-> <<>>,
          expanded |-> FALSE]
    ELSE [status |-> "returned", error |-> "none", mean |-> b.mean,
          var |-> expand_independent_outputs(b.var, full_cov, ~full_output_cov),
          expanded |-> TRUE]

C23_Finish(b, full_cov, full_output_cov) ==
    IF b.status = "raised"
    THEN [status |-> "raised", error |-> b.error, mean |-> <<>>, var |-> <<>>,
          expanded |-> FALSE]
    ELSE [status |-> "returned", error |-> "none", mean |-> b.mean,
          var |-> expand_independent_outputs(b.var, full_cov, full_output_cov),
          expanded |-> TRUE]

C71_Finish_Swallowing(b, full_cov, full_output_cov) ==
    IF b.status = "raised"
    THEN [status |-> "returned", error |-> "none", mean |-> b.mean, var |-> b.var,
          expanded |-> FALSE]
    ELSE [status |-> "returned", error |-> "none", mean |-> b.mean, var |-> b.var,
          expanded |-> FALSE]

C71_Finish(b, full_cov, full_output_cov) ==
    IF b.status = "raised"
    THEN [status |-> "raised", error |-> b.error, mean |-> <<>>, var |-> <<>>,
          expanded |-> FALSE]
    ELSE [status |-> "returned", error |-> "none", mean |-> b.mean, var |-> b.var,
          expanded |-> FALSE]

NoCovariances ==
    [Kmm |-> [by |-> "none", jitter |-> "none", posdef |-> FALSE],
     Kmn |-> [by |-> "none"],
     Knn |-> [by |-> "none", full |-> FALSE]]

NoBase == [status |-> "none", error |-> "none", mean |-> <<>>, var |-> <<>>]

IdleCond ==
    [pc |-> "idle", ref |-> "none", kernel |-> "none", full_cov |-> FALSE,
     full_output_cov |-> FALSE, posdef |-> FALSE, n |-> 0, r |-> 0,
     fn |-> "unresolved", covs |-> NoCovariances, base |-> NoBase,
     status |-> "none", error |-> "none", mean |-> <<>>, var |-> <<>>, expanded |-> FALSE]

NoCall == Call(NoDist, NoTerm, NoTerm, NoHint)

\* call: the arguments of the top-level call the outcome belongs to.
NoOutcome == [status |-> "none", error |-> "none", value |-> NoValue, call |-> NoCall]

(***************************************************************************)
(* Load phase: the modules are imported and their decorators run.          *)
(***************************************************************************)
Init ==
    /\ phase = "load"
    /\ regIdx = 0
    /\ condIdx = 0
    /\ catalog \in { RegisterAll({}, S) : S \in SUBSET ExternalRegistrations }
    /\ condCatalog = {}
    /\ stack = <<>>
    /\ outcome = NoOutcome
    /\ cond = IdleCond

RegisterExpectation ==
    /\ phase = "load"
    /\ regIdx < Len(Registrations)
    /\ catalog' = Register(catalog, Registrations[regIdx + 1])
    /\ regIdx' = regIdx + 1
    /\ UNCHANGED <<phase, condIdx, condCatalog, stack, outcome, cond>>

RegisterConditional ==
    /\ phase = "load"
    /\ condIdx < Len(CondRegistrations)
    /\ condCatalog' = CondRegister(condCatalog, CondRegistrations[condIdx + 1])
    /\ condIdx' = condIdx + 1
    /\ UNCHANGED <<phase, regIdx, catalog, stack, outcome, cond>>

FinishLoad ==
    /\ phase = "load"
    /\ regIdx = Len(Registrations)
    /\ condIdx = Len(CondRegistrations)
    /\ phase' = "query"
    /\ UNCHANGED <<regIdx, condIdx, catalog, condCatalog, stack, outcome, cond>>

(***************************************************************************)
(* Query phase: expectation.                                               *)
(***************************************************************************)
Idle == phase = "query" /\ stack = <<>> /\ outcome = NoOutcome /\ cond = IdleCond

Top == stack[Len(stack)]

SetTop(f) == [stack EXCEPT ![Len(stack)] = f]

Start(p, term1, term2, nghp) ==
    /\ stack' = << Frame(Call(p, term1, term2, nghp)) >>
    /\ outcome' = [NoOutcome EXCEPT !.status = "pending",
                                    !.call = Call(p, term1, term2, nghp)]
    /\ cond' = IdleCond
    /\ UNCHANGED <<phase, regIdx, condIdx, catalog, condCatalog>>

CallExpectation ==
    /\ Idle
    /\ \E term1 \in Terms, term2 \in Terms, nghp \in Hints :
        \/ \E p \in GaussianInputs : Start(p, term1, term2, nghp)
        \/ \E p \in DiagonalInputs : Start(p, term1, term2, nghp)
        \/ \E p \in MarkovInputs : Start(p, term1, term2, nghp)

Raise(error) ==
    /\ stack' = <<>>
    /\ outcome' = [outcome EXCEPT !.status = "raised", !.error = error]

\* dispatch.expectation(p, obj1, feat1, obj2, feat2): a handler is found.
Dispatch ==
    /\ stack # <<>>
    /\ Top.pc = "dispatch"
    /\ Candidates(catalog, KeyOf(Top)) # {}
    /\ stack' = SetTop([Top EXCEPT !.fn = Resolve(catalog, KeyOf(Top)).fn, !.pc = "body"])
    /\ UNCHANGED <<phase, regIdx, condIdx, catalog, condCatalog, outcome, cond>>

\* No signature matches: the error unwinds every frame (no handler catches).
DispatchFail ==
    /\ stack # <<>>
    /\ Top.pc = "dispatch"
    /\ Candidates(catalog, KeyOf(Top)) = {}
    /\ Raise(DispatchError)
    /\ UNCHANGED <<phase, regIdx, condIdx, catalog, condCatalog, cond>>

\* The handler reaches its next nested call of expectation.
HandlerCall ==
    /\ stack # <<>>
    /\ Top.pc = "body"
    /\ ~HandlerRaises(Top)
    /\ Len(Top.subs) < Len(HandlerCalls(Top))
    /\ Len(stack) < MaxDepth
    /\ stack' = Append(stack, Frame(HandlerCalls(Top)[Len(Top.subs) + 1]))
    /\ catalog' = RegisterAll(catalog, HandlerRegisters(Top))
    /\ UNCHANGED <<phase, regIdx, condIdx, condCatalog, outcome, cond>>

\* The nested call would exceed the interpreter's frame limit.
RecursionLimit ==
    /\ stack # <<>>
    /\ Top.pc = "body"
    /\ ~HandlerRaises(Top)
    /\ Len(Top.subs) < Len(HandlerCalls(Top))
    /\ Len(stack) >= MaxDepth
    /\ Raise("RecursionError")
    /\ UNCHANGED <<phase, regIdx, condIdx, catalog, condCatalog, cond>>

\* _E@81: raise NotImplementedError.
HandlerRaise ==
    /\ stack # <<>>
    /\ Top.pc = "body"
    /\ HandlerRaises(Top)
    /\ Raise(DispatchError)
    /\ UNCHANGED <<phase, regIdx, condIdx, catalog, condCatalog, cond>>

\* Every nested call has returned: the handler evaluates its return value.
HandlerFinish ==
    /\ stack # <<>>
    /\ Top.pc = "body"
    /\ ~HandlerRaises(Top)
    /\ Len(Top.subs) = Len(HandlerCalls(Top))
    /\ stack' = SetTop([Top EXCEPT !.ret = HandlerValue(Top), !.pc = "return"])
    /\ catalog' = RegisterAll(catalog, HandlerRegisters(Top))
    /\ UNCHANGED <<phase, regIdx, condIdx, condCatalog, outcome, cond>>

\* The value goes to the calling frame, or to the caller of expectation.
Return ==
    /\ stack # <<>>
    /\ Top.pc = "return"
    /\ IF Len(stack) = 1
       THEN /\ stack' = <<>>
            /\ outcome' = [outcome EXCEPT !.status = "returned", !.value = Top.ret]
       ELSE /\ stack' = [SubSeq(stack, 1, Len(stack) - 1) EXCEPT
                            ![Len(stack) - 1].subs = Append(@, Top.ret)]
            /\ UNCHANGED outcome
    /\ UNCHANGED <<phase, regIdx, condIdx, catalog, condCatalog, cond>>

(***************************************************************************)
(* Query phase: conditional.                                               *)
(***************************************************************************)
CallConditional ==
    /\ Idle
    /\ \E ref \in ReferenceTypes, kernel \in ConditionalKernelTypes,
          full_cov \in BOOLEAN, full_output_cov \in BOOLEAN, posdef \in BOOLEAN,
          n \in {MaxN}, r \in {MaxR} :
        cond' = [IdleCond EXCEPT !.pc = "dispatch", !.ref = ref, !.kernel = kernel,
                                 !.full_cov = full_cov, !.full_output_cov = full_output_cov,
                                 !.posdef = posdef, !.n = n, !.r = r, !.status = "pending"]
    /\ outcome' = NoOutcome
    /\ UNCHANGED <<phase, regIdx, condIdx, catalog, condCatalog, stack>>

CondKey == <<cond.ref, cond.kernel>>

\* conditional_dispatcher.registered_fn(type(feature), type(kernel))
ConditionalDispatch ==
    /\ cond.pc = "dispatch"
    /\ Candidates(condCatalog, CondKey) # {}
    /\ cond' = [cond EXCEPT !.fn = Resolve(condCatalog, CondKey).fn, !.pc = "covariances"]
    /\ UNCHANGED <<phase, regIdx, condIdx, catalog, condCatalog, stack, outcome>>

ConditionalDispatchFail ==
    /\ cond.pc = "dispatch"
    /\ Candidates(condCatalog, CondKey) = {}
    /\ cond' = [cond EXCEPT !.pc = "done", !.status = "raised", !.error = DispatchError]
    /\ UNCHANGED <<phase, regIdx, condIdx, catalog, condCatalog, stack, outcome>>

ConditionalCovariances ==
    /\ cond.pc = "covariances"
    /\ cond' = [cond EXCEPT !.pc = "base",
                            !.covs = IF cond.fn = C23 THEN C23_Covariances(cond)
                                                      ELSE C71_Covariances(cond)]
    /\ UNCHANGED <<phase, regIdx, condIdx, catalog, condCatalog, stack, outcome>>

ConditionalBase ==
    /\ cond.pc = "base"
    /\ cond' = [cond EXCEPT !.pc = "finish",
                            !.base = base_conditional(cond.covs.Kmn, cond.covs.Kmm,
                                                      cond.covs.Knn, cond.n, cond.r,
                                                      cond.full_cov)]
    /\ UNCHANGED <<phase, regIdx, condIdx, catalog, condCatalog, stack, outcome>>

ConditionalFinish ==
    /\ cond.pc = "finish"
    /\ LET res == IF cond.fn = C23
                  THEN C23_Finish(cond.base, cond.full_cov, cond.full_output_cov)
                  ELSE C71_Finish(cond.base, cond.full_cov, cond.full_output_cov)
       IN  cond' = [cond EXCEPT !.pc = "done", !.status = res.status, !.error = res.error,
                                !.mean = res.mean, !.var = res.var,
                                !.expanded = res.expanded]
    /\ UNCHANGED <<phase, regIdx, condIdx, catalog, condCatalog, stack, outcome>>

\* The caller has taken the result (or the error) of the finished call.
Collect ==
    /\ phase = "query"
    /\ stack = <<>>
    /\ \/ outcome.status \in {"returned", "raised"}
       \/ cond.pc = "done"
    /\ outcome' = NoOutcome
    /\ cond' = IdleCond
    /\ UNCHANGED <<phase, regIdx, condIdx, catalog, condCatalog, stack>>

Next ==
    \/ RegisterExpectation
    \/ RegisterConditional
    \/ FinishLoad
    \/ CallExpectation
    \/ Dispatch
    \/ DispatchFail
    \/ HandlerCall
    \/ RecursionLimit
    \/ HandlerRaise
    \/ HandlerFinish
    \/ Return
    \/ CallConditional
    \/ ConditionalDispatch
    \/ ConditionalDispatchFail
    \/ ConditionalCovariances
    \/ ConditionalBase
    \/ ConditionalFinish
    \/ Collect

Spec == Init /\ [][Next]_vars

(***************************************************************************)
(* Properties.                                                             *)
(***************************************************************************)
Frames == { stack[i] : i \in 1..Len(stack) }

Resolved(f) == f.pc # "dispatch"

SameCall(a, b) ==
    /\ a.p.type = b.p.type
    /\ a.p = b.p
    /\ <<a.obj1, a.feat1, a.obj2, a.feat2, a.nghp>> = <<b.obj1, b.feat1, b.obj2, b.feat2, b.nghp>>

\* No active frame was called with the very arguments of a frame below it:
\* the handlers are pure, so such a frame repeats its ancestor for ever.
NoRepeatedCall ==
    \A i \in 1..Len(stack) : \A j \in (i + 1)..Len(stack) : ~SameCall(stack[i], stack[j])

IdentityAgainstPoints(c) ==
    /\ c.obj1 = "mfn.Identity" /\ c.feat1 = "NoneType"
    /\ c.obj2 \in KernelTypes /\ c.feat2 = "InducingPoints"

\* No handler is registered for Identity against kernel type k itself.
NoDedicatedIdentityHandler(k) ==
    ~\E e \in catalog :
        /\ e.sig[2] = "mfn.Identity" /\ e.sig[3] = "NoneType"
        /\ e.sig[4] = k /\ e.sig[5] = "InducingPoints"

\* C1 (as stated): expectation(p, Identity, (kern, InducingPoints)) for a
\* kernel type without a dedicated Identity handler fails with a
\* DispatchError for every distribution variant: it returns no value, does
\* not recurse without end and never runs the Linear mean-function handler.
C1_IdentityFailsExplicitly ==
    (phase = "query" /\ IdentityAgainstPoints(outcome.call)
        /\ NoDedicatedIdentityHandler(outcome.call.obj2))
    => /\ outcome.status # "returned"
       /\ outcome.status = "raised" => outcome.error = DispatchError
       /\ NoRepeatedCall
       /\ \A f \in Frames : f.fn # E61

\* C2 (as stated): every call of expectation terminates: the chain of nested
\* calls never repeats a call that is still active, and a call that fails
\* fails with a DispatchError.
C2_EveryCallTerminates ==
    /\ NoRepeatedCall
    /\ outcome.status = "raised" => outcome.error = DispatchError

\* C10 (as stated): every nested expectation call receives the nghp of the
\* handler that makes it.
C10_HintForwarded ==
    \A i \in 2..Len(stack) : stack[i].nghp = stack[i - 1].nghp

CanonicalShape(n, r, full_cov, full_output_cov) ==
    CASE ~full_cov /\ ~full_output_cov -> <<n, r>>
      [] full_cov /\ ~full_output_cov  -> <<r, n, n>>
      [] ~full_cov /\ full_output_cov  -> <<n, r, r>>
      [] OTHER                         -> <<n, r, n, r>>

ConditionalReturned == cond.pc = "done" /\ cond.status = "returned"

\* C3 (as stated): in both variants the returned variance went through
\* Output-Shape Expansion and has the canonical shape for the two flags.
C3_BothVariantsExpand ==
    ConditionalReturned
    => /\ cond.expanded
       /\ cond.var = CanonicalShape(cond.n, cond.r, cond.full_cov, cond.full_output_cov)

\* C3 (amended): the feature-keyed variant expands the variance to the
\* canonical shape for (full_cov, full_output_cov); the array-keyed variant
\* returns base_conditional's variance as it is, N x R when full_cov is
\* false and R x N x N when it is true, whatever full_output_cov is.
C3_OnlyFeatureVariantExpands ==
    ConditionalReturned
    => /\ cond.fn = C23 =>
            /\ cond.expanded
            /\ cond.var = CanonicalShape(cond.n, cond.r, cond.full_cov,
                                         cond.full_output_cov)
       /\ cond.fn = C71 =>
            /\ ~cond.expanded
            /\ cond.var = IF cond.full_cov THEN <<cond.r, cond.n, cond.n>>
                                           ELSE <<cond.n, cond.r>>

C3_Witness ==
    /\ ConditionalReturned
    /\ cond.fn = C71
    /\ cond.full_output_cov
    /\ cond.var = <<cond.n, cond.r>>
    /\ cond.n # cond.r

IsArray(t) == t \in {"np.ndarray", "tf.Tensor"}

\* C4: conditional picks its handler from the types of the reference and
\* the kernel.  An InducingFeature reference runs the feature-keyed variant
\* (Kuu and Kuf); an np.ndarray or tf.Tensor reference runs the array-keyed
\* variant (kernel evaluations, jitter added to the diagonal of Kmm); both
\* registrations are in the catalog during the query phase; a reference of
\* another type fails with a DispatchError before either variant has run.
C4_ConditionalDispatch ==
    phase = "query"
    => /\ [sig |-> <<"InducingFeature", "kernels.Kernel">>, fn |-> C23] \in condCatalog
       /\ [sig |-> <<"np.ndarray", "kernels.Kernel">>, fn |-> C71] \in condCatalog
       /\ [sig |-> <<"tf.Tensor", "kernels.Kernel">>, fn |-> C71] \in condCatalog
       /\ (cond.pc \notin {"idle", "dispatch"} /\ IsSubclass(cond.kernel, "kernels.Kernel"))
          => /\ IsSubclass(cond.ref, "InducingFeature") =>
                  /\ cond.fn = C23
                  /\ cond.pc # "covariances" =>
                        /\ cond.covs.Kmm.by = "Kuu"
                        /\ cond.covs.Kmn.by = "Kuf"
             /\ IsArray(cond.ref) =>
                  /\ cond.fn = C71
                  /\ cond.pc # "covariances" =>
                        /\ cond.covs.Kmm.by = "kernel"
                        /\ cond.covs.Kmm.jitter = "added_to_diagonal"
                        /\ cond.covs.Kmn.by = "kernel"
             /\ (~IsSubclass(cond.ref, "InducingFeature") /\ ~IsArray(cond.ref)) =>
                  /\ cond.pc = "done"
                  /\ cond.status = "raised"
                  /\ cond.error = DispatchError
                  /\ cond.fn = "unresolved"
                  /\ cond.covs = NoCovariances
                  /\ cond.base = NoBase

C4_Witness ==
    /\ cond.pc = "done"
    /\ cond.ref = "np.ndarray"
    /\ cond.fn = C71
    /\ cond.status = "returned"
    /\ cond.covs.Kmm.jitter = "added_to_diagonal"

\* C7: when base_conditional fails with a LinearAlgebraError, conditional
\* fails with that error in both variants: the call does not return, the
\* variance is not expanded, and no mean or variance comes back.
C7_LinearAlgebraErrorPropagates ==
    (cond.pc = "done" /\ cond.base.status = "raised")
    => /\ cond.base.error = "LinearAlgebraError"
       /\ cond.status = "raised"
       /\ cond.error = "LinearAlgebraError"
       /\ ~cond.expanded
       /\ cond.mean = <<>>
       /\ cond.var = <<>>

C7_Witness ==
    /\ cond.pc = "done"
    /\ cond.fn = C71
    /\ cond.base.status = "raised"
    /\ cond.error = "LinearAlgebraError"

\* Some handler other than the wildcard fallbacks matches the call.
DirectHandler(c) ==
    \E e \in Candidates(catalog, KeyOf(c)) : e.fn \notin {E100, E110}

SameTerms(a, b) ==
    <<a.obj1, a.feat1, a.obj2, a.feat2>> = <<b.obj1, b.feat1, b.obj2, b.feat2>>

\* g is the Gaussian with the mean of the DiagonalGaussian p and, per point,
\* the matrix that has p's variances on its diagonal and zeros elsewhere.
IsDiagonalEmbedding(g, p) ==
    /\ g.type = "Gaussian"
    /\ g.mu = p.mu
    /\ DOMAIN g.cov = DOMAIN p.cov
    /\ \A n \in DOMAIN p.cov :
          /\ DOMAIN g.cov[n] = DOMAIN p.cov[n]
          /\ \A i \in DOMAIN p.cov[n] :
                /\ DOMAIN g.cov[n][i] = DOMAIN p.cov[n]
                /\ \A j \in DOMAIN p.cov[n] :
                      g.cov[n][i][j] = IF i = j THEN p.cov[n][i] ELSE 0

\* C5: a DiagonalGaussian call with no DiagonalGaussian-specific handler runs
\* the fallback, which makes exactly one nested call: on the Gaussian with
\* the same mean and the diagonal embedding of the variances, with the same
\* terms in the same positions and the same nghp.  That call is keyed on
\* Gaussian, no frame above it is the DiagonalGaussian fallback again, and
\* the fallback returns the nested result unchanged.
C5_DiagonalFallback ==
    /\ \A i \in 1..Len(stack) :
          LET f == stack[i] IN
          /\ (f.p.type = "DiagonalGaussian" /\ Resolved(f) /\ ~DirectHandler(f))
                => f.fn = E100
          /\ f.fn = E100 =>
                /\ Len(f.subs) <= 1
                /\ Len(f.subs) = 1 => i = Len(stack)
                /\ f.pc = "return" => (Len(f.subs) = 1 /\ f.ret = f.subs[1])
                /\ \A j \in (i + 1)..Len(stack) :
                      /\ stack[j].fn # E100
                      /\ stack[j].p.type # "DiagonalGaussian"
                /\ i < Len(stack) =>
                      /\ IsDiagonalEmbedding(stack[i + 1].p, f.p)
                      /\ SameTerms(stack[i + 1], f)
                      /\ stack[i + 1].nghp = f.nghp
    /\ (outcome.status = "returned" /\ outcome.call.p.type = "DiagonalGaussian"
            /\ ~DirectHandler(outcome.call))
          => IsDiagonalEmbedding(outcome.value.p, outcome.call.p)

C5_Witness ==
    /\ outcome.status = "returned"
    /\ outcome.call.p.type = "DiagonalGaussian"
    /\ ~DirectHandler(outcome.call)
    /\ outcome.call.nghp # NoHint
    /\ outcome.call.obj1 \in MeanTypes
    /\ outcome.call.obj2 \in KernelTypes

\* g is the Gaussian over the steps from+1 .. from+T of the chain p, with
\* their means and marginal covariances; the cross-time block is not in it.
IsMarginalSlice(g, p, from) ==
    /\ g.type = "Gaussian"
    /\ Len(g.mu) = Len(p.mu) - 1
    /\ Len(g.cov) = Len(p.mu) - 1
    /\ \A n \in 1..(Len(p.mu) - 1) :
          /\ g.mu[n] = p.mu[from + n]
          /\ g.cov[n] = p.cov[1][from + n]

Absent(obj) == obj = "NoneType"

\* C6: a MarkovGaussian call over T+1 steps with no directly registered
\* handler runs the fallback.  With term1 alone the nested call is the
\* Gaussian expectation of term1 over all steps but the last; with term2
\* alone it is the Gaussian expectation of term2, as the single term, over
\* all steps but the first.  The fallback returns the nested result, which
\* covers exactly T steps.
C6_MarkovSingleTerm ==
    /\ \A i \in 1..Len(stack) :
          LET f == stack[i] IN
          /\ (f.p.type = "MarkovGaussian" /\ Resolved(f) /\ ~DirectHandler(f))
                => f.fn = E110
          /\ (f.fn = E110 /\ (Absent(f.obj1) \/ Absent(f.obj2))) =>
                /\ Len(f.subs) <= 1
                /\ f.pc = "return" => (Len(f.subs) = 1 /\ f.ret = f.subs[1])
          /\ (f.fn = E110 /\ i < Len(stack) /\ ~Absent(f.obj1) /\ Absent(f.obj2)) =>
                /\ IsMarginalSlice(stack[i + 1].p, f.p, 0)
                /\ stack[i + 1].obj1 = f.obj1 /\ stack[i + 1].feat1 = f.feat1
                /\ Absent(stack[i + 1].obj2) /\ Absent(stack[i + 1].feat2)
          /\ (f.fn = E110 /\ i < Len(stack) /\ Absent(f.obj1) /\ ~Absent(f.obj2)) =>
                /\ IsMarginalSlice(stack[i + 1].p, f.p, 1)
                /\ stack[i + 1].obj1 = f.obj2 /\ stack[i + 1].feat1 = f.feat2
                /\ Absent(stack[i + 1].obj2) /\ Absent(stack[i + 1].feat2)
    /\ (outcome.status = "returned" /\ outcome.call.p.type = "MarkovGaussian"
            /\ ~DirectHandler(outcome.call))
          => /\ Absent(outcome.call.obj1) # Absent(outcome.call.obj2)
             /\ IsMarginalSlice(outcome.value.p, outcome.call.p,
                                IF Absent(outcome.call.obj1) THEN 1 ELSE 0)

C6_Witness ==
    /\ outcome.status = "returned"
    /\ outcome.call.p.type = "MarkovGaussian"
    /\ Absent(outcome.call.obj1)
    /\ outcome.call.obj2 \in KernelTypes
    /\ Len(outcome.value.p.mu) = MaxSteps - 1

\* C8: among the matching entries the most specific is resolved.  For the
\* key (Gaussian, Identity, NoneType, K, InducingPoints): the handler
\* registered for the kernel type K itself when there is one (_E@18 for
\* kernels.Linear), otherwise the Identity guard _E@81, and in neither case
\* the Linear mean-function handler _E@61.  The wildcard fallbacks are
\* resolved only when no other entry matches.
C8_MostSpecificWins ==
    \A f \in Frames :
        Resolved(f) =>
            /\ (f.p.type = "Gaussian" /\ IdentityAgainstPoints(f)) =>
                  /\ f.fn # E61
                  /\ f.obj2 = "kernels.Linear" => f.fn = E18
                  /\ NoDedicatedIdentityHandler(f.obj2) => f.fn = E81
                  /\ ~NoDedicatedIdentityHandler(f.obj2) =>
                        [sig |-> KeyOf(f), fn |-> f.fn] \in catalog
            /\ f.fn \in {E100, E110} =>
                  /\ ~DirectHandler(f)
                  /\ \A e \in Candidates(catalog, KeyOf(f)) : Wildcards(e.sig) >= 2

C8_Witness ==
    /\ stack # <<>>
    /\ Top.fn = E18
    /\ Top.p.type = "Gaussian"
    /\ \E e \in Candidates(catalog, KeyOf(Top)) : e.fn = E81
    /\ \E e \in Candidates(catalog, KeyOf(Top)) : e.fn = E61

\* C9: once loading is over the catalogs are read-only: no step of a call
\* of expectation or conditional, successful or failed, adds, removes or
\* replaces an entry, and loading never resumes.
C9_CatalogFrozenAfterLoad ==
    [][phase = "query" =>
          /\ catalog' = catalog
          /\ condCatalog' = condCatalog
          /\ phase' = "query"]_vars

C9_Witness ==
    /\ phase = "query"
    /\ outcome.status = "raised"
    /\ outcome.call.p.type = "DiagonalGaussian"
    /\ \A n \in 1..Len(Registrations) : Expand(Registrations[n]) \subseteq catalog

====
